---- MODULE Spec2Model ----
(***************************************************************************)
(* Call session orchestration: CallManager (registry, create, setup,      *)
(* transcript handler, endCall, purge timer), LLMBot (conversation map,   *)
(* processMessage, room join/leave) and DeepgramHandler (transcription    *)
(* connections, text to speech).                                          *)
(*                                                                         *)
(* JavaScript runs one synchronous segment at a time: every action below  *)
(* is one such segment, from the event that starts it to the next await.  *)
(* Objects have reference identity: a call record, a conversation, a      *)
(* transcription connection and a room are heap objects, and the maps     *)
(* hold references to them.                                               *)
(***************************************************************************)
EXTENDS Integers, Sequences, FiniteSets, Bags, TLC

\* ---------------------------------------------------------------- bounds
\* Number of call ids uuidv4() hands out.
MaxCalls == 2
\* Number of operations on existing calls (API calls, provider payloads).
MaxOps == 4
\* Last value of the clock that new Date() reads.
MaxTime == 1

\* ------------------------------------------------------------- constants
\* 0 stands for an id no create operation ever returned.
StrangerId == 0
CallIds == 1..MaxCalls

\* Inbound calls arrive in the room the webhook names; an outbound call gets
\* the room `call-${callId}` (the server passes no options.roomName).
NamedRoom == [kind |-> "named", n |-> 42]
CallRoom(id) == [kind |-> "call", n |-> id]
AllRooms == {NamedRoom} \cup {CallRoom(i) : i \in CallIds}

SystemPrompt == "You are an AI assistant on a phone call."
WelcomeMessage == "This is an inbound call. Be welcoming and helpful."
InitialContext == "initial context"
Apology == "I'm sorry, I'm having trouble processing your request. Could you try again?"

\* Texts a transcription payload can carry, before trim().
PayloadTexts == {"hello", "bye", " ", ""}
Trim(t) == IF t = " " THEN "" ELSE t
\* The language model's answer to the last user turn, after trim().
Completion(t) == IF t = "hello" THEN "hi there" ELSE "goodbye"

\* The audioCallback arguments setupSpeechToText is given: TRUE for a function.
Callbacks == {TRUE}

NoTime == -1
NoObj == <<0, 0>>

VARIABLES
  ops,             \* operations on existing calls so far
  now,             \* the clock new Date() reads
  nextId,          \* next id uuidv4() returns
  creating,        \* create operations suspended on provisioning
  activeCalls,     \* CallManager.activeCalls: the keys of the Map
  calls,           \* call record objects, by call id
  botParticipants, \* CallManager.botParticipants: room -> call id of the bot
  conversations,   \* LLMBot.conversations: call id -> conversation object
  heap,            \* conversation objects: object id -> messages
  sttConnections,  \* DeepgramHandler.sttConnections: call id -> connection
  conns,           \* transcription connection objects, by call id, in start order
  activeRooms,     \* LLMBot.activeRooms: call id -> room object
  rooms,           \* room objects, by call id, in creation order
  joining,         \* joinRoom invocations suspended on room.connect
  leaving,         \* leaveRoom invocations suspended on room.disconnect
  steps,           \* transcript handlers suspended on completion or synthesis,
                   \* by call id, in arrival order
  ending,          \* endCall invocations suspended on disconnectParticipant, by call id
  timers,          \* pending purge timers, by call id
  last             \* the last operation that ran and what it returned

vars == <<ops, now, nextId, creating, activeCalls, calls, botParticipants,
          conversations, heap, sttConnections, conns, activeRooms, rooms,
          joining, leaving, steps, ending, timers, last>>

callVars == <<activeCalls, calls, botParticipants, timers>>
botVars == <<conversations, heap>>
sttVars == <<sttConnections, conns>>
roomVars == <<activeRooms, rooms, joining, leaving>>

\* ------------------------------------------------------------ call records
NoCall ==
  [type |-> "none", status |-> "none", roomName |-> NamedRoom,
   startTime |-> NoTime, endTime |-> NoTime, duration |-> NoTime,
   lastTranscript |-> "", lastTranscriptTime |-> NoTime, sttSession |-> 0]

Last(op, c, ret) == [op |-> op, call |-> c, ret |-> ret]

\* A transcript event: what the listener made of the payload (the trimmed
\* text, the is_final flag) and what became of it.
Heard(c, text, isFinal, ret) ==
  [op |-> "transcript", call |-> c, ret |-> ret, text |-> text, isFinal |-> isFinal]

\* The end of a transcript handler: the text it sent to synthesis and what
\* became of the audio.
Spoke(c, text, ret) == [op |-> "step", call |-> c, ret |-> ret, text |-> text]

\* Sequence q without its i-th element.
Without(q, i) == SubSeq(q, 1, i - 1) \o SubSeq(q, i + 1, Len(q))

\* --------------------------------------------------------------- LLMBot
Msg(role, content) == [role |-> role, content |-> content]

Bot == [conversations |-> conversations, heap |-> heap]

\* A fresh conversation object (named after the call id it is created for).
NewObj(h, c) ==
  <<c, CHOOSE k \in 1..(Cardinality(DOMAIN h) + 1) : <<c, k>> \notin DOMAIN h>>

\* initializeConversation that leaves an existing conversation alone.
InitializeConversationOnce(b, c) ==
  IF b.conversations[c] # NoObj THEN b
  ELSE LET o == NewObj(b.heap, c)
       IN [conversations |-> [b.conversations EXCEPT ![c] = o],
           heap |-> (o :> <<Msg("system", SystemPrompt)>>) @@ b.heap]

InitializeConversation(b, c) ==
  LET o == NewObj(b.heap, c)
  IN [conversations |-> [b.conversations EXCEPT ![c] = o],
      heap |-> (o :> <<Msg("system", SystemPrompt)>>) @@ b.heap]

AddSystemMessage(b, c, content) ==
  LET b1 == IF b.conversations[c] = NoObj THEN InitializeConversation(b, c) ELSE b
      o == b1.conversations[c]
  IN [b1 EXCEPT !.heap[o] = Append(@, Msg("system", content))]

\* processMessage up to its await: the user turn is appended and the
\* completion request leaves with the history as it then stands.
ProcessMessageRequest(b, c, text) ==
  LET b1 == IF b.conversations[c] = NoObj THEN InitializeConversation(b, c) ELSE b
      o == b1.conversations[c]
  IN [b1 EXCEPT !.heap[o] = Append(@, Msg("user", text))]

\* processMessage after its await, the completion having succeeded: the
\* assistant turn goes to the object the handler holds, which is then put
\* (back) into the map.
ProcessMessageResponse(b, c, o, resp) ==
  [conversations |-> [b.conversations EXCEPT ![c] = o],
   heap |-> [b.heap EXCEPT ![o] = Append(@, Msg("assistant", resp))]]

DeleteConversation(b, c) == [b EXCEPT !.conversations[c] = NoObj]

\* Objects no map entry and no suspended handler refers to are garbage.
Collect(h, convs, ss) ==
  LET live == {convs[c] : c \in CallIds} \cup
              UNION {{ss[c][i].conv : i \in DOMAIN ss[c]} : c \in CallIds}
  IN [o \in (DOMAIN h) \cap live |-> h[o]]

\* ----------------------------------------------------------------- Init
\* The state after the three singletons are constructed; uuidv4() is a
\* supply of fresh ids, of which the model hands out first..MaxCalls.
InitWith(first) ==
  /\ ops = 0
  /\ now = 0
  /\ nextId = first
  /\ creating = {}
  /\ activeCalls = {}
  /\ calls = [c \in CallIds |-> NoCall]
  /\ botParticipants = [r \in AllRooms |-> 0]
  /\ conversations = [c \in CallIds |-> NoObj]
  /\ heap = <<>>
  /\ sttConnections = [c \in CallIds |-> 0]
  /\ conns = [c \in CallIds |-> <<>>]
  /\ activeRooms = [c \in CallIds |-> 0]
  /\ rooms = [c \in CallIds |-> <<>>]
  /\ joining = {}
  /\ leaving = EmptyBag
  /\ steps = [c \in CallIds |-> <<>>]
  /\ ending = [c \in CallIds |-> 0]
  /\ timers = [c \in CallIds |-> 0]
  /\ last = Last("none", StrangerId, "none")

Init == InitWith(1)

\* A single call: one id is left to hand out.
InitSolo == InitWith(MaxCalls)

\* Two calls: two ids are left to hand out.
InitPair == InitWith(MaxCalls - 1)

\* An operation on an existing call starts.
Op == ops < MaxOps /\ ops' = ops + 1

\* Time passes.
Tick ==
  /\ now < MaxTime
  /\ now' = now + 1
  /\ UNCHANGED <<ops, nextId, creating, callVars, botVars, sttVars, roomVars,
                 steps, ending, last>>

\* Ids a client can name: the ones a create operation returned, and a stranger.
Returned == {c \in CallIds : calls[c].status # "none"}
Known == {StrangerId} \cup Returned

\* ------------------------------------------------- CallManager: creation
\* handleInboundCall / initiateOutboundCall up to `await createOrGetRoom`:
\* an id is drawn and the room request leaves; nothing is stored yet.
StartCreate(type, roomName, ctx) ==
  /\ nextId <= MaxCalls
  /\ nextId' = nextId + 1
  /\ creating' = creating \cup
       {[id |-> nextId, type |-> type, pc |-> "room", ctx |-> ctx,
         roomName |-> roomName]}
  /\ last' = Last(type, nextId, "pending")
  /\ UNCHANGED <<ops, now, callVars, botVars, sttVars, roomVars, steps, ending>>

HandleInboundCall == StartCreate("inbound", NamedRoom, FALSE)

\* options.initialContext is optional.
InitiateOutboundCall ==
  \E ctx \in BOOLEAN : StartCreate("outbound", CallRoom(nextId), ctx)

\* A create operation that stores the record before the step that fails.
CreateThrowsAfterStore(t) ==
  /\ activeCalls' = activeCalls \cup {t.id}
  /\ calls' = [calls EXCEPT ![t.id] =
       [NoCall EXCEPT !.type = t.type, !.status = "initializing",
                      !.roomName = t.roomName, !.startTime = now]]
  /\ creating' = creating \ {t}
  /\ last' = Last(t.type, t.id, "throw")
  /\ UNCHANGED <<ops, now, nextId, botParticipants, timers, botVars, sttVars,
                 roomVars, steps, ending>>

\* The catch block of a create operation: the error is logged and rethrown.
CreateThrows(t) ==
  /\ creating' = creating \ {t}
  /\ last' = Last(t.type, t.id, "throw")
  /\ UNCHANGED <<ops, now, nextId, callVars, botVars, sttVars, roomVars, steps,
                 ending>>

\* The tail of a create operation: conversation, record, bot tracking, return.
Register(t, status) ==
  LET b1 == InitializeConversation(Bot, t.id)
      b2 == IF t.type = "inbound" THEN AddSystemMessage(b1, t.id, WelcomeMessage)
            ELSE IF t.ctx THEN AddSystemMessage(b1, t.id, InitialContext)
            ELSE b1
  IN /\ conversations' = b2.conversations
     /\ heap' = Collect(b2.heap, b2.conversations, steps)
     /\ activeCalls' = activeCalls \cup {t.id}
     /\ calls' = [calls EXCEPT ![t.id] =
          [NoCall EXCEPT !.type = t.type, !.status = status,
                         !.roomName = t.roomName, !.startTime = now]]
     /\ botParticipants' = [botParticipants EXCEPT ![t.roomName] = t.id]
     /\ creating' = creating \ {t}
     /\ last' = Last(t.type, t.id, "ok")
     /\ UNCHANGED <<ops, now, nextId, timers, sttVars, roomVars, steps, ending>>

\* handleInboundCall after `await createOrGetRoom`; generateToken is
\* synchronous and may throw.
InboundRoomResolves ==
  \E t \in creating, roomOk \in BOOLEAN, tokenOk \in BOOLEAN :
    /\ t.type = "inbound"
    /\ IF roomOk /\ tokenOk THEN Register(t, "initializing") ELSE CreateThrows(t)

\* initiateOutboundCall after `await createOrGetRoom`: token, then the dial
\* request leaves.
OutboundRoomResolves ==
  \E t \in creating, roomOk \in BOOLEAN, tokenOk \in BOOLEAN :
    /\ t.type = "outbound" /\ t.pc = "room"
    /\ IF roomOk /\ tokenOk
       THEN /\ creating' = (creating \ {t}) \cup {[t EXCEPT !.pc = "dial"]}
            /\ UNCHANGED <<ops, now, nextId, callVars, botVars, sttVars,
                           roomVars, steps, ending, last>>
       ELSE CreateThrows(t)

\* initiateOutboundCall after `await placeOutboundCall`.
OutboundDialResolves ==
  \E t \in creating, dialOk \in BOOLEAN :
    /\ t.type = "outbound" /\ t.pc = "dial"
    /\ IF dialOk THEN Register(t, "calling") ELSE CreateThrows(t)

\* ------------------------------------------- DeepgramHandler: connections
\* startSTTSession: a live connection is created and stored under the call id,
\* overwriting whatever was stored there; its listeners close over callId and
\* over the handler (which closes over audioCallback).
StartSTTSession(c, cb) ==
  /\ conns' = [conns EXCEPT ![c] = Append(@, [state |-> "connecting", cb |-> cb])]
  /\ sttConnections' = [sttConnections EXCEPT ![c] = Len(conns[c]) + 1]

\* connection.finish(): an open socket flushes its last results and closes; a
\* socket that never opened is aborted and delivers nothing more.
Finish(cs, k) ==
  [cs EXCEPT ![k].state = CASE @ = "open" -> "closing"
                            [] @ = "connecting" -> "aborted"
                            [] OTHER -> @]

\* endSTTSession: finish() and delete, when an entry exists.
EndSTTSession(c) ==
  LET k == sttConnections[c]
  IN /\ conns' = IF k = 0 THEN conns ELSE [conns EXCEPT ![c] = Finish(@, k)]
     /\ sttConnections' = [sttConnections EXCEPT ![c] = 0]

\* The 'open' listener only logs; the socket becomes OPEN.
ConnectionOpens ==
  \E c \in CallIds : \E k \in DOMAIN conns[c] :
    /\ conns[c][k].state = "connecting"
    /\ conns' = [conns EXCEPT ![c][k].state = "open"]
    /\ UNCHANGED <<ops, now, nextId, creating, callVars, botVars,
                   sttConnections, roomVars, steps, ending, last>>

\* The 'close' listener deletes the map entry of its call id.
ConnectionCloses ==
  \E c \in CallIds : \E k \in DOMAIN conns[c] :
    /\ conns[c][k].state # "closed"
    /\ conns' = [conns EXCEPT ![c][k].state = "closed"]
    /\ sttConnections' = [sttConnections EXCEPT ![c] = 0]
    /\ UNCHANGED <<ops, now, nextId, creating, callVars, botVars, roomVars,
                   steps, ending, last>>

\* --------------------------------------------- CallManager: speech to text
SetupSpeechToText ==
  \E c \in Known, cb \in Callbacks :
    /\ Op
    /\ IF c \notin activeCalls
       THEN /\ last' = Last("setupSpeechToText", c, "throw")
            /\ UNCHANGED <<callVars, sttVars>>
       ELSE /\ StartSTTSession(c, cb)
            /\ calls' = [calls EXCEPT ![c].sttSession = Len(conns[c]) + 1,
                                      ![c].status = "active"]
            /\ last' = Last("setupSpeechToText", c, "ok")
            /\ UNCHANGED <<activeCalls, botParticipants, timers>>
    /\ UNCHANGED <<now, nextId, creating, botVars, roomVars, steps, ending>>

\* An audio chunk offered for a call: whether it was sent, and on which
\* connection of the call (0: on none).
Offered(c, ret, k) == [op |-> "audio", call |-> c, ret |-> ret, sentOn |-> k]

\* sendAudioForTranscription: the chunk goes out when the call id has a
\* connection whose readyState is OPEN.
SendAudioForTranscription(c) ==
  LET k == sttConnections[c]
  IN IF k # 0 /\ conns[c][k].state = "open"
     THEN Offered(c, "true", k)
     ELSE Offered(c, "false", 0)

\* processAudioForTranscription without its `activeCalls.has(callId)` test.
ProcessAudioAnyCall ==
  \E c \in Known :
    /\ Op
    /\ last' = IF c \in CallIds THEN SendAudioForTranscription(c)
               ELSE Offered(c, "false", 0)
    /\ UNCHANGED <<now, nextId, creating, callVars, botVars, sttVars, roomVars,
                   steps, ending>>

\* processAudioForTranscription: ids that are not in the registry get false.
ProcessAudioForTranscription ==
  \E c \in Known :
    /\ Op
    /\ last' = IF c \in activeCalls THEN SendAudioForTranscription(c)
               ELSE Offered(c, "false", 0)
    /\ UNCHANGED <<now, nextId, creating, callVars, botVars, sttVars, roomVars,
                   steps, ending>>

\* handleTranscription without its `transcriptionResult.isFinal` test: interim
\* transcripts are processed like final ones.
HandleTranscriptionAnyFinality(c, cb, text, isFinal) ==
  IF text = ""
  THEN /\ last' = Heard(c, text, isFinal, "ignored")
       /\ UNCHANGED <<callVars, botVars, steps>>
  ELSE IF c \notin activeCalls
  THEN /\ last' = Heard(c, text, isFinal, "throw")
       /\ UNCHANGED <<callVars, botVars, steps>>
  ELSE LET b == ProcessMessageRequest(Bot, c, text)
       IN /\ calls' = [calls EXCEPT ![c].lastTranscript = text,
                                    ![c].lastTranscriptTime = now]
          /\ steps' = [steps EXCEPT ![c] = Append(@,
               [cb |-> cb, conv |-> b.conversations[c], text |-> text,
                pc |-> "completion", resp |-> ""])]
          /\ conversations' = b.conversations
          /\ heap' = Collect(b.heap, b.conversations, steps')
          /\ last' = Heard(c, text, isFinal, "started")
          /\ UNCHANGED <<activeCalls, botParticipants, timers>>

\* handleTranscription up to its first await, for the handler that
\* setupSpeechToText(c, cb) made.
HandleTranscription(c, cb, text, isFinal) ==
  IF ~(isFinal /\ text # "")
  THEN /\ last' = Heard(c, text, isFinal, "ignored")
       /\ UNCHANGED <<callVars, botVars, steps>>
  ELSE IF c \notin activeCalls
  THEN \* call is undefined: `call.lastTranscript = ...` throws in the async
       \* handler, whose promise the listener drops.
       /\ last' = Heard(c, text, isFinal, "throw")
       /\ UNCHANGED <<callVars, botVars, steps>>
  ELSE LET b == ProcessMessageRequest(Bot, c, text)
       IN /\ calls' = [calls EXCEPT ![c].lastTranscript = text,
                                    ![c].lastTranscriptTime = now]
          /\ steps' = [steps EXCEPT ![c] = Append(@,
               [cb |-> cb, conv |-> b.conversations[c], text |-> text,
                pc |-> "completion", resp |-> ""])]
          /\ conversations' = b.conversations
          /\ heap' = Collect(b.heap, b.conversations, steps')
          /\ last' = Heard(c, text, isFinal, "started")
          /\ UNCHANGED <<activeCalls, botParticipants, timers>>

\* What the speech engine sends on a connection.
Payloads ==
  {[ok |-> FALSE, text |-> "", isFinal |-> FALSE]} \cup
  [ok : {TRUE}, text : PayloadTexts, isFinal : BOOLEAN]

\* The 'transcriptReceived' listener: malformed payloads and payloads without
\* text are dropped; the rest reach the handler, trimmed.
TranscriptReceived ==
  \E c \in CallIds : \E k \in DOMAIN conns[c], p \in Payloads :
    /\ conns[c][k].state \in {"open", "closing"}
    /\ Op
    /\ IF p.ok /\ p.text # "" /\ Trim(p.text) # ""
       THEN HandleTranscription(c, conns[c][k].cb, Trim(p.text), p.isFinal)
       ELSE /\ last' = Heard(c, IF p.ok THEN Trim(p.text) ELSE "", p.isFinal, "dropped")
            /\ UNCHANGED <<callVars, botVars, steps>>
    /\ UNCHANGED <<now, nextId, creating, sttVars, roomVars, ending>>

\* processMessage without its catch block: a failed completion rejects the
\* handler, which ends there without a synthesis request.
CompletionResolvesNoCatch ==
  \E c \in CallIds : \E i \in DOMAIN steps[c], ok \in BOOLEAN :
    LET s == steps[c][i]
        resp == Completion(s.text)
        b == IF ok THEN ProcessMessageResponse(Bot, c, s.conv, resp) ELSE Bot
    IN /\ s.pc = "completion"
       /\ steps' = IF ok
                   THEN [steps EXCEPT ![c][i] = [s EXCEPT !.pc = "synthesis", !.resp = resp]]
                   ELSE [steps EXCEPT ![c] = Without(@, i)]
       /\ conversations' = b.conversations
       /\ heap' = Collect(b.heap, b.conversations, steps')
       /\ last' = Last("completion", c, IF ok THEN "ok" ELSE "fail")
       /\ UNCHANGED <<ops, now, nextId, creating, callVars, sttVars, roomVars,
                      ending>>

\* processMessage after `await openai...create`, then the handler up to
\* `await textToSpeech`: on success the assistant turn is stored, on failure
\* the apology is returned; either text goes to synthesis.
CompletionResolves ==
  \E c \in CallIds : \E i \in DOMAIN steps[c], ok \in BOOLEAN :
    LET s == steps[c][i]
        resp == IF ok THEN Completion(s.text) ELSE Apology
        b == IF ok THEN ProcessMessageResponse(Bot, c, s.conv, resp) ELSE Bot
    IN /\ s.pc = "completion"
       /\ steps' = [steps EXCEPT ![c][i] = [s EXCEPT !.pc = "synthesis", !.resp = resp]]
       /\ conversations' = b.conversations
       /\ heap' = Collect(b.heap, b.conversations, steps')
       /\ last' = Last("completion", c, IF ok THEN "ok" ELSE "fail")
       /\ UNCHANGED <<ops, now, nextId, creating, callVars, sttVars, roomVars,
                      ending>>

\* The handler after `await textToSpeech`: the audio goes to the callback when
\* there is one; a synthesis error is rethrown and rejects the handler, whose
\* promise the listener dropped.
SynthesisResolves ==
  \E c \in CallIds : \E i \in DOMAIN steps[c], ok \in BOOLEAN :
    LET s == steps[c][i]
    IN /\ s.pc = "synthesis"
       /\ steps' = [steps EXCEPT ![c] = Without(@, i)]
       /\ heap' = Collect(heap, conversations, steps')
       /\ last' = Spoke(c, s.resp,
                        IF ~ok THEN "throw" ELSE IF s.cb THEN "audio" ELSE "silent")
       /\ UNCHANGED <<ops, now, nextId, creating, callVars, conversations,
                      sttVars, roomVars, ending>>

\* ------------------------------------------------------ LLMBot: transport
\* leaveRoom up to `await room.disconnect()`.
LeaveRoomRequest(c) ==
  IF activeRooms[c] # 0
  THEN leaving' = leaving (+) SetToBag({[call |-> c, room |-> activeRooms[c]]})
  ELSE leaving' = leaving

\* joinRoom up to `await room.connect`.
JoinRoom ==
  \E c \in Returned :
    /\ Op
    /\ IF activeRooms[c] # 0
       THEN /\ last' = Last("joinRoom", c, "ok")
            /\ UNCHANGED roomVars
       ELSE /\ rooms' = [rooms EXCEPT ![c] = Append(@, "connecting")]
            /\ activeRooms' = [activeRooms EXCEPT ![c] = Len(rooms[c]) + 1]
            /\ joining' = joining \cup {[call |-> c, room |-> Len(rooms[c]) + 1]}
            /\ last' = Last("joinRoom", c, "pending")
            /\ UNCHANGED leaving
    /\ UNCHANGED <<now, nextId, creating, callVars, botVars, sttVars, steps,
                   ending>>

\* joinRoom after `await room.connect`: the room is returned, or the catch
\* block deletes the entry of the call id and rethrows.
JoinRoomResolves ==
  \E t \in joining, ok \in BOOLEAN :
    /\ ok => rooms[t.call][t.room] = "connecting"
    /\ joining' = joining \ {t}
    /\ rooms' = [rooms EXCEPT ![t.call][t.room] =
                   IF ok THEN "connected" ELSE "disconnected"]
    /\ activeRooms' = IF ok THEN activeRooms ELSE [activeRooms EXCEPT ![t.call] = 0]
    /\ last' = Last("joinRoom", t.call, IF ok THEN "ok" ELSE "throw")
    /\ UNCHANGED <<ops, now, nextId, creating, callVars, botVars, sttVars,
                   leaving, steps, ending>>

\* The RoomEvent.Disconnected listener, the transport having dropped the room
\* on its own: the entry of the call id is deleted.
RoomDisconnected ==
  \E c \in CallIds : \E r \in DOMAIN rooms[c] :
    /\ rooms[c][r] = "connected"
    /\ rooms' = [rooms EXCEPT ![c][r] = "disconnected"]
    /\ activeRooms' = [activeRooms EXCEPT ![c] = 0]
    /\ last' = Last("disconnected", c, "handled")
    /\ UNCHANGED <<ops, now, nextId, creating, callVars, botVars, sttVars,
                   joining, leaving, steps, ending>>

\* leaveRoom that rejects when the call id has no room entry.
LeaveRoomStrict ==
  \E c \in Returned :
    /\ Op
    /\ LeaveRoomRequest(c)
    /\ last' = Last("leaveRoom", c, IF activeRooms[c] # 0 THEN "pending" ELSE "throw")
    /\ UNCHANGED <<now, nextId, creating, callVars, botVars, sttVars,
                   activeRooms, rooms, joining, steps, ending>>

\* leaveRoom up to its await; without a room entry it only logs.
LeaveRoom ==
  \E c \in Returned :
    /\ Op
    /\ LeaveRoomRequest(c)
    /\ last' = Last("leaveRoom", c, IF activeRooms[c] # 0 THEN "pending" ELSE "ok")
    /\ UNCHANGED <<now, nextId, creating, callVars, botVars, sttVars,
                   activeRooms, rooms, joining, steps, ending>>

\* leaveRoom after `await room.disconnect()`: the entry of the call id is
\* deleted (by the Disconnected listener, and again by leaveRoom itself).
LeaveRoomResolves ==
  \E t \in BagToSet(leaving) :
    /\ leaving' = leaving (-) SetToBag({t})
    /\ rooms' = [rooms EXCEPT ![t.call][t.room] = "disconnected"]
    /\ activeRooms' = [activeRooms EXCEPT ![t.call] = 0]
    /\ last' = Last("leaveRoom", t.call, "ok")
    /\ UNCHANGED <<ops, now, nextId, creating, callVars, botVars, sttVars,
                   joining, steps, ending>>

\* ------------------------------------------------- LLMBot: public methods
\* initializeConversation(callId), called on its own.
BotInitializeConversation ==
  \E c \in CallIds :
    LET b == InitializeConversation(Bot, c)
    IN /\ Op
       /\ conversations' = b.conversations
       /\ heap' = Collect(b.heap, b.conversations, steps)
       /\ last' = Last("initializeConversation", c, "ok")
       /\ UNCHANGED <<now, nextId, creating, callVars, sttVars, roomVars, steps,
                      ending>>

\* addSystemMessage(callId, content), called on its own.
BotAddSystemMessage ==
  \E c \in CallIds, content \in {WelcomeMessage, InitialContext} :
    LET b == AddSystemMessage(Bot, c, content)
    IN /\ Op
       /\ conversations' = b.conversations
       /\ heap' = Collect(b.heap, b.conversations, steps)
       /\ last' = Last("addSystemMessage", c, "ok")
       /\ UNCHANGED <<now, nextId, creating, callVars, sttVars, roomVars, steps,
                      ending>>

\* endConversation(callId) up to `await this.leaveRoom`.
BotEndConversation ==
  \E c \in CallIds :
    /\ Op
    /\ conversations' = DeleteConversation(Bot, c).conversations
    /\ heap' = Collect(heap, conversations', steps)
    /\ LeaveRoomRequest(c)
    /\ last' = Last("endConversation", c, "ok")
    /\ UNCHANGED <<now, nextId, creating, callVars, sttVars, activeRooms, rooms,
                   joining, steps, ending>>

\* ---------------------------------------------------- CallManager: endCall
\* endCall up to `await disconnectParticipant`, the id being in the registry:
\* the transcription session and the conversation are ended (the latter starts
\* leaveRoom, which nobody awaits) and the removal request leaves.
EndCallTeardown(c) ==
  /\ EndSTTSession(c)
  /\ conversations' = DeleteConversation(Bot, c).conversations
  /\ heap' = Collect(heap, conversations', steps)
  /\ LeaveRoomRequest(c)
  /\ ending' = [ending EXCEPT ![c] = @ + 1]
  /\ last' = Last("endCall", c, "pending")

\* endCall without its `activeCalls.has(callId)` test: the session and the
\* conversation of the id are ended, then `call.botIdentity` throws on the
\* undefined record and the catch block returns false.
EndCallNoHasCheck ==
  \E c \in Known :
    /\ Op
    /\ IF c \notin activeCalls
       THEN /\ last' = Last("endCall", c, "false")
            /\ IF c \in CallIds
               THEN /\ EndSTTSession(c)
                    /\ conversations' = DeleteConversation(Bot, c).conversations
                    /\ heap' = Collect(heap, conversations', steps)
                    /\ LeaveRoomRequest(c)
               ELSE UNCHANGED <<sttVars, botVars, leaving>>
            /\ UNCHANGED ending
       ELSE EndCallTeardown(c)
    /\ UNCHANGED <<now, nextId, creating, callVars, activeRooms, rooms, joining,
                   steps>>

\* endCall up to its first await: ids that are not in the registry return false.
EndCall ==
  \E c \in Known :
    /\ Op
    /\ IF c \notin activeCalls
       THEN /\ last' = Last("endCall", c, "false")
            /\ UNCHANGED <<sttVars, botVars, leaving, ending>>
       ELSE EndCallTeardown(c)
    /\ UNCHANGED <<now, nextId, creating, callVars, activeRooms, rooms, joining,
                   steps>>

\* endCall after `await disconnectParticipant`: a failed removal is caught
\* (and skips the bot tracking cleanup); the record is marked ended, stored
\* again under its id, and a purge timer is started.
EndCallResumes ==
  \E c \in CallIds, ok \in BOOLEAN :
    /\ ending[c] > 0
    /\ ending' = [ending EXCEPT ![c] = @ - 1]
    /\ botParticipants' =
         IF ok THEN [botParticipants EXCEPT ![calls[c].roomName] = 0]
         ELSE botParticipants
    /\ calls' = [calls EXCEPT ![c].status = "ended", ![c].endTime = now,
                              ![c].duration = now - calls[c].startTime]
    /\ activeCalls' = activeCalls \cup {c}
    /\ timers' = [timers EXCEPT ![c] = @ + 1]
    /\ last' = Last("endCall", c, "true")
    /\ UNCHANGED <<ops, now, nextId, creating, botVars, sttVars, roomVars, steps>>

\* The purge timer's callback.
PurgeTimerFires ==
  \E c \in CallIds :
    /\ timers[c] > 0
    /\ timers' = [timers EXCEPT ![c] = @ - 1]
    /\ activeCalls' = activeCalls \ {c}
    /\ UNCHANGED <<ops, now, nextId, creating, calls, botParticipants, botVars,
                   sttVars, roomVars, steps, ending, last>>

\* ---------------------------------------------------- CallManager: queries
\* What getCallDetails returns for an id that is not in the registry: null.
NotFound == [found |-> FALSE]

\* getCallDetails: a snapshot of the record; the duration runs to endTime
\* once that is set and to the present before.
GetCallDetails(c) ==
  IF c \in activeCalls
  THEN LET call == calls[c]
       IN [id |-> c, type |-> call.type, status |-> call.status,
           roomName |-> call.roomName, startTime |-> call.startTime,
           duration |-> IF call.endTime # NoTime
                        THEN call.endTime - call.startTime
                        ELSE now - call.startTime,
           lastTranscript |-> call.lastTranscript,
           lastTranscriptTime |-> call.lastTranscriptTime]
  ELSE NotFound

\* getAllActiveCalls without its `call.status !== 'ended'` test.
GetAllCalls == {GetCallDetails(c) : c \in activeCalls}

\* getAllActiveCalls: the snapshots of the entries whose status is not 'ended'.
GetAllActiveCalls ==
  {GetCallDetails(c) : c \in {k \in activeCalls : calls[k].status # "ended"}}

\* ------------------------------------------------------- specifications
Next ==
  \/ Tick
  \/ HandleInboundCall
  \/ InitiateOutboundCall
  \/ InboundRoomResolves
  \/ OutboundRoomResolves
  \/ OutboundDialResolves
  \/ SetupSpeechToText
  \/ ConnectionOpens
  \/ ConnectionCloses
  \/ TranscriptReceived
  \/ CompletionResolves
  \/ SynthesisResolves
  \/ JoinRoom
  \/ JoinRoomResolves
  \/ RoomDisconnected
  \/ LeaveRoom
  \/ LeaveRoomResolves
  \/ EndCall
  \/ EndCallResumes
  \/ PurgeTimerFires

\* Every operation, every call.
Spec == Init /\ [][Next]_vars

\* The registry of two calls: creation, setup, endCall and the purge timer.
NextCalls ==
  \/ HandleInboundCall
  \/ InitiateOutboundCall
  \/ InboundRoomResolves
  \/ OutboundRoomResolves
  \/ OutboundDialResolves
  \/ SetupSpeechToText
  \/ EndCall
  \/ EndCallResumes
  \/ PurgeTimerFires

SpecCalls == InitPair /\ [][NextCalls]_vars

\* The transcript pipeline of one inbound call.
NextPipeline ==
  \/ HandleInboundCall
  \/ InboundRoomResolves
  \/ SetupSpeechToText
  \/ ConnectionOpens
  \/ ConnectionCloses
  \/ TranscriptReceived
  \/ CompletionResolves
  \/ SynthesisResolves
  \/ EndCall
  \/ EndCallResumes
  \/ PurgeTimerFires

SpecPipeline == InitSolo /\ [][NextPipeline]_vars

\* The transport of one inbound call.
NextTransport ==
  \/ HandleInboundCall
  \/ InboundRoomResolves
  \/ SetupSpeechToText
  \/ ConnectionOpens
  \/ JoinRoom
  \/ JoinRoomResolves
  \/ RoomDisconnected
  \/ LeaveRoom
  \/ LeaveRoomResolves
  \/ EndCall
  \/ EndCallResumes

SpecTransport == InitSolo /\ [][NextTransport]_vars

\* The processing steps of one inbound call, and endCall.
NextSteps ==
  \/ HandleInboundCall
  \/ InboundRoomResolves
  \/ SetupSpeechToText
  \/ ConnectionOpens
  \/ TranscriptReceived
  \/ CompletionResolves
  \/ SynthesisResolves
  \/ EndCall
  \/ EndCallResumes

SpecSteps == InitSolo /\ [][NextSteps]_vars

\* The conversation map of the bot, driven through its public methods.
NextBot ==
  \/ BotInitializeConversation
  \/ BotAddSystemMessage
  \/ BotEndConversation

SpecBot == InitPair /\ [][NextBot]_vars

\* Caller audio of one inbound call: its connection, endCall and the purge.
NextAudio ==
  \/ HandleInboundCall
  \/ InboundRoomResolves
  \/ SetupSpeechToText
  \/ ConnectionOpens
  \/ ConnectionCloses
  \/ ProcessAudioForTranscription
  \/ EndCall
  \/ EndCallResumes
  \/ PurgeTimerFires

SpecAudio == InitSolo /\ [][NextAudio]_vars

\* Calls that are created and then left alone: nobody sets up their
\* transcription channel, joins their room or ends them, while time passes.
NextIdle ==
  \/ Tick
  \/ HandleInboundCall
  \/ InitiateOutboundCall
  \/ InboundRoomResolves
  \/ OutboundRoomResolves
  \/ OutboundDialResolves

\* What the event loop guarantees: time passes and a pending provider answer
\* arrives.
Scheduling ==
  /\ WF_vars(Tick)
  /\ WF_vars(InboundRoomResolves)
  /\ WF_vars(OutboundRoomResolves)
  /\ WF_vars(OutboundDialResolves)

SpecIdle == InitPair /\ [][NextIdle]_vars /\ Scheduling

\* ----------------------------------------------------------------- claims
\* The transition is an invocation of endCall(c): an operation started and it
\* is recorded as endCall on c.
EndCallInvoked(c) == ops' # ops /\ last'.op = "endCall" /\ last'.call = c

\* Everything endCall could touch.
EndCallFrame ==
  <<activeCalls, calls, botParticipants, timers, conversations, heap,
    sttConnections, conns, activeRooms, rooms, joining, leaving, ending>>

\* C1: for every call, at most one processing step (a transcript handler
\* between its user turn and its audio forward) is in flight at any time.
C1_OneStepInFlight == \A c \in CallIds : Len(steps[c]) <= 1

\* C2: when several final transcripts arrive while a step of the call is in
\* flight, only the most recent of them is ever processed: a transcript that
\* arrived during a step that is still in flight, and after which another one
\* arrived, has appended no user turn and issued no completion request (which
\* every member of steps has done).
C2_SupersededNeverRequested ==
  \A c \in CallIds : \A j \in DOMAIN steps[c] :
    ~(\E i, k \in DOMAIN steps[c] : i < j /\ j < k)

\* C3: endCall on a call whose record is in the registry with status 'ended'
\* returns false and changes nothing: no teardown, no change of status,
\* endTime or duration, no further purge timer.
C3_EndCallOnEndedIsNoOp ==
  [][\A c \in CallIds :
       (EndCallInvoked(c) /\ c \in activeCalls /\ calls[c].status = "ended")
         => (last'.ret = "false" /\ UNCHANGED EndCallFrame)]_vars

\* C4: endCall on an id that is not in the registry returns false and leaves
\* the registry, the conversations, the transcription connections and the bot
\* tracking as they were.
C4_EndCallUnknownIsNoOp ==
  [][\A c \in {StrangerId} \cup CallIds :
       (EndCallInvoked(c) /\ c \notin activeCalls)
         => (last'.ret = "false" /\ UNCHANGED EndCallFrame)]_vars

\* C4 happens: endCall returned false for the id of a purged call that still
\* has a transcription connection stored under it.
C4_Witness ==
  /\ last = Last("endCall", last.call, "false")
  /\ last.call \in CallIds
  /\ last.call \notin activeCalls
  /\ calls[last.call].status # "none"
  /\ sttConnections[last.call] # 0

\* Teardown of call c has been requested or has completed.
Ending(c) == ending[c] > 0 \/ calls[c].status \in {"ending", "ended"}

\* C5: when the transport reports an unsolicited 'disconnected' for a call in
\* the registry, the handling of that event moves the call to Ending (or
\* Ended), endCall never having been invoked.
C5_DisconnectedDrivesEnding ==
  [][\A c \in CallIds :
       (last'.op = "disconnected" /\ last'.call = c /\ rooms' # rooms
        /\ c \in activeCalls)
         => Ending(c)']_vars

StatusRank(st) ==
  CASE st = "none" -> 0
    [] st = "initializing" -> 1
    [] st = "calling" -> 2
    [] st = "active" -> 3
    [] st = "ending" -> 4
    [] st = "ended" -> 5

\* C6: the status of a call only advances along Initializing -> Connecting ->
\* Active -> Ending -> Ended; in particular an ended call stays ended.
C6_StatusOnlyAdvances ==
  [][\A c \in CallIds :
       StatusRank(calls'[c].status) >= StatusRank(calls[c].status)]_vars

\* C7: a create operation puts the record into the registry before its
\* provisioning starts, and when provisioning fails the registry holds a
\* record of that id whose status is Ending or Ended.
C7_RegisteredBeforeProvisioning ==
  [][/\ \A t \in creating' : t.id \in activeCalls'
     /\ \A c \in CallIds :
          (creating' # creating /\ last' = Last(last'.op, c, "throw")
           /\ last'.op \in {"inbound", "outbound"})
            => (c \in activeCalls' /\ Ending(c)')]_vars

\* C8: when a create operation returns, the record of the returned id has
\* left Initializing: it is in Connecting (or beyond).
C8_ReturnedInConnecting ==
  [][\A c \in CallIds :
       (creating' # creating /\ last' = Last(last'.op, c, "ok")
        /\ last'.op \in {"inbound", "outbound"})
         => StatusRank(calls'[c].status) >= StatusRank("calling")]_vars

TransportConnected(c) ==
  activeRooms[c] # 0 /\ rooms[c][activeRooms[c]] = "connected"

ChannelOpen(c) ==
  sttConnections[c] # 0 /\ conns[c][sttConnections[c]].state = "open"

\* C9: a call becomes Active only when its transport has reported connected
\* and its transcription channel has reported open.
C9_ActiveMeansConnectedAndOpen ==
  [][\A c \in CallIds :
       (calls[c].status # "active" /\ calls'[c].status = "active")
         => (TransportConnected(c)' /\ ChannelOpen(c)')]_vars

\* C10: a processing step starts only while the call is Active: not after
\* endCall was requested for it, and not after its record reached 'ended'.
C10_StepsStartOnlyWhileActive ==
  [][\A c \in CallIds :
       Len(steps'[c]) > Len(steps[c])
         => (c \in activeCalls /\ calls[c].status = "active" /\ ending[c] = 0)]_vars

\* The call is in the registry with status 'active' and no endCall is under way.
Active(c) == c \in activeCalls /\ calls[c].status = "active" /\ ending[c] = 0

\* The messages of the conversation stored under call id c.
History(c) == heap[conversations[c]]

\* C11: a step that resumes from its completion or synthesis request after the
\* call has left Active is discarded: resuming from the completion stores no
\* assistant turn and changes no conversation, and resuming from synthesis
\* does not invoke the audio callback.
C11_LateResultDiscarded ==
  [][\A c \in CallIds :
       (steps'[c] # steps[c] /\ last'.op \in {"completion", "step"}
        /\ last'.call = c /\ ~Active(c))
         => (UNCHANGED botVars /\ last'.ret # "audio")]_vars

\* C12: once a call has ended (its record has status 'ended', or was purged),
\* nothing is stored under its id in the conversation map, in the
\* transcription connection map or in the room map.
C12_EndedCallHoldsNothing ==
  \A c \in CallIds :
    (calls[c].status = "ended" \/ (calls[c].status # "none" /\ c \notin activeCalls))
      => (conversations[c] = NoObj /\ sttConnections[c] = 0 /\ activeRooms[c] = 0)

\* C13: when endCall issues the transport disconnect of a call that had a
\* conversation, the conversation is still there: it is released only after
\* the transport was disconnected.
C13_ContextReleasedLast ==
  [][\A c \in CallIds :
       (ending'[c] > ending[c] /\ conversations[c] # NoObj)
         => conversations'[c] # NoObj]_vars

\* The status values the code gives a record.
DefinedStatuses == {"initializing", "calling", "active", "ended"}

\* C14: from registration to purge getCallDetails returns a record with a
\* defined status, 'ended' when a successful endCall returns; and once the
\* purge has made a created call not-found, it stays not-found.
C14_QueryableThenGone ==
  [][\A c \in CallIds :
       /\ c \in activeCalls' => GetCallDetails(c)'.status \in DefinedStatuses
       /\ (last' # last /\ last' = Last("endCall", c, "true"))
            => GetCallDetails(c)' # NotFound /\ GetCallDetails(c)'.status = "ended"
       /\ (calls[c].status # "none" /\ GetCallDetails(c) = NotFound)
            => GetCallDetails(c)' = NotFound]_vars

\* C15: getAllActiveCalls returns the snapshots of exactly the registry
\* records whose status is not 'ended', also while a teardown is suspended.
C15_ActiveListIsNonEnded ==
  /\ \A d \in GetAllActiveCalls :
       d # NotFound /\ d.status # "ended" /\ d = GetCallDetails(d.id)
  /\ {d.id : d \in GetAllActiveCalls} =
       {c \in CallIds : c \in activeCalls /\ calls[c].status # "ended"}

\* C15 happens: the registry holds an ended call and a call whose teardown is
\* suspended on the transport disconnect; only the latter is listed.
C15_Witness ==
  \E c, e \in activeCalls :
    /\ calls[e].status = "ended"
    /\ calls[c].status # "ended" /\ ending[c] > 0
    /\ {d.id : d \in GetAllActiveCalls} = {c}

\* C16: a transcript event that is not final, or whose text is empty, changes
\* no conversation and starts no completion or synthesis request.
C16_InterimChangesNothing ==
  [][\A c \in CallIds :
       (ops' # ops /\ last'.op = "transcript" /\ last'.call = c
        /\ (~last'.isFinal \/ last'.text = ""))
         => UNCHANGED <<conversations, heap, steps>>]_vars

\* C16 happens: an interim transcript with text reached the handler of a call
\* while a step of that call was in flight, and was ignored.
C16_Witness ==
  /\ last.op = "transcript" /\ last.ret = "ignored"
  /\ ~last.isFinal /\ last.text # ""
  /\ Len(steps[last.call]) > 0

\* C17: when the completion request of a step fails, the record of the call
\* (its status included) and the conversations stay as they are and the step
\* goes on to synthesis with the apology; the audio callback gets the audio
\* of the text the step sent to synthesis; and every final transcript with
\* text that finds the call in the registry starts a step, whatever happened
\* to earlier steps.
C17_CompletionFailureApologizes ==
  [][\A c \in CallIds :
       /\ (steps'[c] # steps[c] /\ last' = Last("completion", c, "fail"))
            => /\ UNCHANGED <<calls, activeCalls, conversations, heap>>
               /\ \E i \in DOMAIN steps[c] :
                    /\ steps[c][i].pc = "completion"
                    /\ steps'[c] = [steps[c] EXCEPT ![i].pc = "synthesis",
                                                     ![i].resp = Apology]
       /\ (steps'[c] # steps[c] /\ last'.op = "step" /\ last'.call = c)
            => \E i \in DOMAIN steps[c] :
                 /\ steps[c][i].pc = "synthesis"
                 /\ steps[c][i].resp = last'.text
                 /\ steps'[c] = Without(steps[c], i)
       /\ (ops' # ops /\ last'.op = "transcript" /\ last'.call = c
           /\ last'.isFinal /\ last'.text # "" /\ c \in activeCalls)
            => /\ last'.ret = "started"
               /\ Len(steps'[c]) = Len(steps[c]) + 1
               /\ steps'[c][Len(steps'[c])].pc = "completion"
               /\ steps'[c][Len(steps'[c])].text = last'.text]_vars

\* C17 happens: the audio of the apology went to the callback of a call that
\* is still active.
C17_Witness ==
  /\ last.op = "step" /\ last.ret = "audio" /\ last.text = Apology
  /\ Active(last.call)

\* C18: a failed synthesis request stays inside its step: the handler ends
\* without an escaping error and without audio for the turn, the record of
\* the call (its status included) is as before, and nothing of another call
\* changes.
C18_SynthesisFailureContained ==
  [][\A c \in CallIds :
       (steps'[c] # steps[c] /\ last'.op = "step" /\ last'.call = c)
         => /\ last'.ret # "throw"
            /\ UNCHANGED <<calls, activeCalls>>
            /\ \A d \in CallIds \ {c} :
                 UNCHANGED <<steps[d], conversations[d], sttConnections[d]>>]_vars

\* The conversation of c holds system turns only and no step of c is in flight.
Fresh(c) ==
  /\ conversations[c] # NoObj
  /\ \A i \in DOMAIN History(c) : History(c)[i].role = "system"
  /\ steps[c] = <<>>

\* C19: on a freshly created inbound call that is active, a final transcript t
\* issues exactly one completion request, whose history is [system, user:t];
\* the completion text then goes to exactly one synthesis request, and its
\* audio to exactly one invocation of the callback.
C19_FirstTurnHistory ==
  [][\A c \in CallIds :
       /\ (ops' # ops /\ last'.op = "transcript" /\ last'.call = c
           /\ last'.isFinal /\ last'.text # ""
           /\ calls[c].type = "inbound" /\ Active(c) /\ Fresh(c))
            => /\ Len(steps'[c]) = 1
               /\ steps'[c][1].pc = "completion"
               /\ heap'[steps'[c][1].conv] =
                    <<Msg("system", SystemPrompt), Msg("user", last'.text)>>
       /\ (steps'[c] # steps[c] /\ last' = Last("completion", c, "ok"))
            => \E i \in DOMAIN steps[c] :
                 steps'[c] = [steps[c] EXCEPT ![i].pc = "synthesis",
                                              ![i].resp = Completion(steps[c][i].text)]
       /\ (steps'[c] # steps[c] /\ last'.op = "step" /\ last'.ret = "audio"
           /\ last'.call = c)
            => Len(steps'[c]) = Len(steps[c]) - 1]_vars

\* Sequence a is a prefix of sequence b.
IsPrefix(a, b) == Len(a) <= Len(b) /\ SubSeq(b, 1, Len(a)) = a

\* C20: while a call id has a conversation, its message history only grows
\* by appending: in every step that leaves the id with a conversation, the
\* history before is a prefix of the history after.
C20_HistoryAppendOnly ==
  [][\A c \in CallIds :
       (conversations[c] # NoObj /\ conversations'[c] # NoObj)
         => IsPrefix(History(c), History(c)')]_vars

\* The message histories of bot b, by call id; no conversation, no messages.
View(b) ==
  [c \in CallIds |->
     IF b.conversations[c] = NoObj THEN <<>> ELSE b.heap[b.conversations[c]]]

\* C21: addSystemMessage(c, content) makes the history of c longer by exactly
\* one turn, also when c has no conversation at the time of the call.
C21_AppendAddsOneTurn ==
  [][\A c \in CallIds :
       (ops' # ops /\ last' = Last("addSystemMessage", c, "ok"))
         => Len(View(Bot')[c]) = Len(View(Bot)[c]) + 1]_vars

\* C22: after initializeConversation(c) the history of c is the one system
\* turn, whatever it was before; the history of every other call is as it
\* was; and initializing once more changes no history.
C22_InitializeResets ==
  [][\A c \in CallIds :
       (ops' # ops /\ last' = Last("initializeConversation", c, "ok"))
         => /\ conversations'[c] # NoObj
            /\ View(Bot')[c] = <<Msg("system", SystemPrompt)>>
            /\ \A d \in CallIds \ {c} : View(Bot')[d] = View(Bot)[d]
            /\ View(InitializeConversation(Bot', c)) = View(Bot')]_vars

\* C22 happens: initializeConversation replaced an existing conversation of c
\* (the new object is the second one of c) while another call has a longer
\* history.
C22_Witness ==
  \E c \in CallIds, d \in CallIds :
    /\ last = Last("initializeConversation", c, "ok")
    /\ conversations[c] = <<c, 2>>
    /\ d # c /\ Len(View(Bot)[d]) > 1

\* C23: when a joinRoom attempt fails, the room map holds no entry that the
\* failed attempt registered, and an entry of the same call id that belongs
\* to another join is left in place.
C23_FailedJoinRollsBackOwnEntry ==
  [][\A t \in joining :
       (t \notin joining' /\ last' = Last("joinRoom", t.call, "throw"))
         => /\ activeRooms'[t.call] # t.room
            /\ activeRooms[t.call] # t.room
                 => activeRooms'[t.call] = activeRooms[t.call]]_vars

\* C24: leaveRoom on a call id without a room entry returns normally and
\* changes nothing; and when a leaveRoom finishes, the id has no entry and the
\* room it left is disconnected, however many leaveRoom calls were made.
C24_LeaveRoomIdempotent ==
  [][\A c \in CallIds :
       /\ (ops' # ops /\ last'.op = "leaveRoom" /\ last'.call = c
           /\ activeRooms[c] = 0)
            => /\ last'.ret = "ok"
               /\ UNCHANGED <<callVars, botVars, sttVars, roomVars, steps, ending>>
       /\ (ops' = ops /\ leaving' # leaving /\ last' = Last("leaveRoom", c, "ok"))
            => /\ activeRooms'[c] = 0
               /\ \E t \in BagToSet(leaving) :
                    /\ t.call = c
                    /\ leaving' = leaving (-) SetToBag({t})
                    /\ rooms'[c][t.room] = "disconnected"]_vars

\* C24 happens: leaveRoom returned at once for a call whose only room is
\* already disconnected and has no entry, no other leaveRoom being under way.
C24_Witness ==
  /\ last.op = "leaveRoom" /\ last.ret = "ok" /\ last.call \in CallIds
  /\ activeRooms[last.call] = 0
  /\ rooms[last.call] = <<"disconnected">>
  /\ leaving = EmptyBag /\ joining = {}
  /\ ops >= 3

\* C25: processAudioForTranscription(c, chunk) changes nothing and raises
\* nothing; it returns true exactly when c is in the registry and the
\* connection stored for c is open, and then the chunk went out on that
\* connection; otherwise it returns false and no chunk went out.
C25_AudioSentOnlyWhenOpen ==
  [][\A c \in {StrangerId} \cup CallIds :
       (ops' # ops /\ last'.op = "audio" /\ last'.call = c)
         => /\ UNCHANGED <<callVars, botVars, sttVars, roomVars, steps, ending>>
            /\ last'.ret \in {"true", "false"}
            /\ last'.ret = "true"
                 <=> /\ c \in activeCalls
                     /\ sttConnections[c] # 0
                     /\ conns[c][sttConnections[c]].state = "open"
            /\ last'.sentOn = IF last'.ret = "true" THEN sttConnections[c] ELSE 0]_vars

\* C25 happens: a chunk was refused for a purged call whose stored connection
\* is open.
C25_Witness ==
  /\ last.op = "audio" /\ last.ret = "false" /\ last.call \in CallIds
  /\ last.call \notin activeCalls
  /\ sttConnections[last.call] # 0
  /\ conns[last.call][sttConnections[last.call]].state = "open"

\* C26: a call whose status is 'initializing' or 'calling' eventually becomes
\* active or is put into teardown, whether or not anybody sets up its
\* transcription channel or ends it.
C26_SetupNeverHangs ==
  \A c \in CallIds :
    (calls[c].status \in {"initializing", "calling"})
      ~> (calls[c].status = "active" \/ Ending(c))

\* The bot of call b is the one tracked for the room of b.
BotTracked(b) ==
  calls[b].status # "none" /\ botParticipants[calls[b].roomName] = b

\* What belongs to call b: its record and registry entry, its history, its
\* transcription connection and its bot tracking.
CallState(b) ==
  <<calls[b], b \in activeCalls, View(Bot)[b], sttConnections[b], BotTracked(b)>>

\* C27: what belongs to a call changes only in steps of that call's own
\* operations (or of its own purge timer), also when calls share a room name.
C27_NoCrossCallMutation ==
  [][\A b \in CallIds :
       CallState(b)' # CallState(b)
         => (last'.call = b \/ timers'[b] < timers[b])]_vars

\* C28: the audio callback is invoked in the order in which the final
\* transcripts arrived: when the audio of a step is forwarded, no step of an
\* earlier transcript of the call is still in flight.
C28_AudioInTranscriptOrder ==
  [][\A c \in CallIds :
       (steps'[c] # steps[c] /\ last'.op = "step" /\ last'.ret = "audio"
        /\ last'.call = c)
         => steps'[c] = Tail(steps[c])]_vars

\* C29: in the history of every call, each assistant turn comes right after
\* the user turn it answers.
C29_AssistantFollowsItsUserTurn ==
  \A c \in CallIds : \A j \in DOMAIN View(Bot)[c] :
    LET h == View(Bot)[c]
    IN h[j].role = "assistant"
         => /\ j > 1
            /\ h[j - 1].role = "user"
            /\ h[j].content = Completion(h[j - 1].content)

\* C30: when handleInboundCall or initiateOutboundCall fails in room
\* provisioning, token generation or dialing, the error reaches the caller and
\* the registry, the conversation map and the bot-participant map are as they
\* were: nothing is left for the failed call id.
C30_FailedCreateLeavesNothing ==
  [][\A c \in CallIds :
       (creating' # creating /\ last'.op \in {"inbound", "outbound"}
        /\ last'.call = c /\ last'.ret = "throw")
         => /\ UNCHANGED <<activeCalls, calls, conversations, heap,
                           botParticipants>>
            /\ c \notin activeCalls'
            /\ calls'[c] = NoCall
            /\ conversations'[c] = NoObj
            /\ \A r \in AllRooms : botParticipants'[r] # c]_vars

\* An outbound call has failed while another call is registered.
C30_Witness ==
  \E c \in CallIds :
    /\ last = Last("outbound", c, "throw")
    /\ calls[c] = NoCall
    /\ activeCalls # {}

\* C31: a record is removed from the registry only while its status is
\* 'ended': no purge timer removes a record that is 'initializing', 'calling'
\* or 'active' when the timer fires.
C31_PurgeOnlyEnded ==
  [][\A c \in CallIds :
       (c \in activeCalls /\ c \notin activeCalls')
         => calls[c].status = "ended"]_vars

\* C32: when endCall is invoked for a call while an earlier invocation for the
\* same call is suspended on the transport disconnect, the teardown is done at
\* most once: the two invocations are never both suspended on a removal
\* request of their own (after which each would start a purge timer and
\* return true).
C32_OverlappingEndCallTearsDownOnce == \A c \in CallIds : ending[c] <= 1

\* C34: whenever endCall returns true for a call, the bot-participant map
\* holds no entry for the room of the call afterwards, also when the removal
\* request of the transport failed.
C34_EndedCallRoomUntracked ==
  [][\A c \in CallIds :
       (ending'[c] < ending[c] /\ last' = Last("endCall", c, "true"))
         => botParticipants'[calls'[c].roomName] = 0]_vars

\* The transition delivers a final transcript with text to a handler of c.
FinalHeard(c) ==
  /\ ops' # ops
  /\ last'.op = "transcript" /\ last'.call = c
  /\ last'.isFinal /\ last'.text # ""

\* The record of c was stored and is no longer in the registry.
Purged(c) == calls[c].status # "none" /\ c \notin activeCalls

\* C33: a final transcript that reaches the handler of a call whose record has
\* been purged is ignored: the handler raises no error, creates no
\* conversation and starts no completion or synthesis request.
C33_TranscriptAfterPurgeIgnored ==
  [][\A c \in CallIds :
       (FinalHeard(c) /\ Purged(c))
         => /\ last'.ret = "ignored"
            /\ UNCHANGED <<conversations, heap, steps>>]_vars

\* The record object of c is in the registry, or a suspended endCall holds it
\* and will store it again.
RecordHeld(c) == c \in activeCalls \/ ending[c] > 0

\* C35: the lastTranscript of the record of a call is the text of the final
\* transcript with text that was delivered last for the call: such an event
\* sets it, and no other step (interim events, the end of processing steps)
\* changes it.
C35_LastTranscriptIsLatestFinal ==
  [][\A c \in CallIds :
       IF FinalHeard(c)
       THEN RecordHeld(c) => calls'[c].lastTranscript = last'.text
       ELSE calls'[c].lastTranscript = calls[c].lastTranscript]_vars

\* The transition closes connection k of call c.
Closes(c, k) == conns[c][k].state # "closed" /\ conns'[c][k].state = "closed"

\* C36: the entry of a call in the transcription-connection map is the
\* connection of the call that was started last: the 'close' event of an older
\* connection, replaced by a second startSTTSession for the call, does not
\* remove the entry of the newer one.
C36_CloseOfOldConnectionKeepsEntry ==
  [][\A c \in CallIds : \A k \in DOMAIN conns[c] :
       (Closes(c, k) /\ sttConnections[c] \notin {0, k})
         => sttConnections'[c] = sttConnections[c]]_vars
====
